---- MODULE Spec2Model ----
(***************************************************************************)
(* A model of the iterrator crate (src/src/lib.rs): the fallible iterator  *)
(* trait Iterrator, its adaptors Take and Map, and the terminal fold.      *)
(*                                                                         *)
(* An iterator is a base source wrapped by a stack of adaptor layers.      *)
(* `layers[1]` wraps the source, `layers[i+1]` wraps `layers[i]`, and the  *)
(* last layer is the iterator the caller holds.  The caller first builds   *)
(* the chain (take, map), then either steps it by hand (next) or hands it  *)
(* to fold, whose `while let` loop runs one iteration per FoldLoop step.   *)
(***************************************************************************)
EXTENDS Integers, Sequences, FiniteSets, TLC

\* ---------------------------------------------------------------- bounds
\* longest outcome script of a caller-supplied source
MaxLen == 2
\* longest source that counts 1, 2, ..., k and then ends
MaxCount == 5
\* largest bound handed to take(n)
MaxN == 5
\* most adaptors stacked on a source
MaxDepth == 2
\* most next() calls a caller makes by hand
MaxSteps == 4

\* ------------------------------------------------- step outcomes (line 29)
\* Result<Option<Item>, Error>: Ok(Some(v)), Ok(None), Err(e)
Value(v) == [tag |-> "Value", val |-> v]
End == [tag |-> "End", val |-> 0]
Error(e) == [tag |-> "Error", val |-> e]

\* the unit error `()` of the test iterators
UnitError == 0

Items == {1, 2}
Errors == {1}
Outcomes == {Value(v) : v \in Items} \cup {End} \cup {Error(e) : e \in Errors}

\* ------------------------------------------------------------ the sources
RECURSIVE ScriptsOfLen(_)
ScriptsOfLen(k) ==
    IF k = 0 THEN {<<>>}
    ELSE {Append(s, o) : s \in ScriptsOfLen(k - 1), o \in Outcomes}

CountScript(k) == [j \in 1..k |-> Value(j)]

Scripts ==
    (UNION {ScriptsOfLen(k) : k \in 0..MaxLen})
        \cup {CountScript(k) : k \in 0..MaxCount}

\* A caller-supplied implementer of Iterrator: `script` lists the outcomes of
\* its successive next() calls, after which it reports Ok(None).
ScriptSource(s) == [kind |-> "Script", script |-> s, cur |-> 0, calls |-> 0]
\* tests::FailIterator
FailIterator == [kind |-> "Fail", script |-> <<>>, cur |-> 0, calls |-> 0]
\* tests::NumbersIterator(start); `cur` is the field self.0
NumbersIterator(start) ==
    [kind |-> "Numbers", script |-> <<>>, cur |-> start, calls |-> 0]

Sources ==
    {ScriptSource(s) : s \in Scripts}
        \cup {FailIterator} \cup {NumbersIterator(b) : b \in 0..1}

\* Each returns [res |-> outcome, src |-> the source after the call];
\* `calls` counts the next() calls the source has received.
ScriptNext(s) ==
    IF s.cur < Len(s.script)
    THEN [res |-> s.script[s.cur + 1],
          src |-> [s EXCEPT !.cur = @ + 1, !.calls = @ + 1]]
    ELSE [res |-> End, src |-> [s EXCEPT !.calls = @ + 1]]

FailNext(s) == [res |-> Error(UnitError), src |-> [s EXCEPT !.calls = @ + 1]]

NumbersNext(s) ==
    [res |-> Value(s.cur + 1),
     src |-> [s EXCEPT !.cur = @ + 1, !.calls = @ + 1]]

SourceNext(s) ==
    CASE s.kind = "Script" -> ScriptNext(s)
      [] s.kind = "Fail" -> FailNext(s)
      [] s.kind = "Numbers" -> NumbersNext(s)

\* ----------------------------------------------------------- the adaptors
\* Take{iter, n}
TakeLayer(n) == [kind |-> "Take", n |-> n, f |-> "none", seen |-> <<>>]
\* Map{iter, f}; `seen` is the closure's own state: the arguments it was
\* called with so far, in order
MapLayer(f) == [kind |-> "Map", n |-> 0, f |-> f, seen |-> <<>>]

TakeCounts == 0..MaxN
\* closures handed to map: a pure one and one with mutable state (FnMut)
MapFns == {"double", "tally"}

\* the closure `f` applied to x, given the calls it has seen before
ApplyMap(f, seen, x) ==
    CASE f = "double" -> x * 2
      [] f = "tally" -> x + Len(seen)

FoldFns == {"add", "shl"}
FoldInits == {0, 1}

\* the closure handed to fold: |a, b| a + b as in the tests, and a
\* non-commutative one
ApplyFold(f, a, b) ==
    CASE f = "add" -> a + b
      [] f = "shl" -> 2 * a + b

VARIABLES
    src,      \* the base iterator the chain is built on
    layers,   \* the adaptors wrapping it, innermost first
    pc,       \* "build", "step", "fold" or "done"
    outs,     \* outcomes the outermost iterator has returned, in order
    accum,    \* fold: `accum`
    ff,       \* fold: the closure `f`
    fargs,    \* fold: the <<accum, x>> pairs `f` was called with, in order
    result,   \* fold: its return value
    src0,     \* history: the source as first constructed
    chain0,   \* history: the adaptors as constructed
    init0     \* history: fold's `init`

vars == <<src, layers, pc, outs, accum, ff, fargs, result, src0, chain0, init0>>

NoResult == [tag |-> "None", val |-> 0]
Ok(v) == [tag |-> "Ok", val |-> v]
Err(e) == [tag |-> "Err", val |-> e]

\* next() on the iterator made of the source and layers 1..i.
\* Returns [res, layers, src].
RECURSIVE ChainNext(_, _, _)

\* Take::next with the decrement `self.n -= 1` left out
TakeNextNoDecrement(i, ls, s) ==
    IF ls[i].n # 0
    THEN ChainNext(i - 1, ls, s)
    ELSE [res |-> End, layers |-> ls, src |-> s]

\* Take::next with the guard `self.n != 0` left out: the count saturates at
\* zero and the wrapped iterator is stepped on every call
TakeNextNoGuard(i, ls, s) ==
    ChainNext(i - 1, [ls EXCEPT ![i].n = IF @ = 0 THEN 0 ELSE @ - 1], s)

\* Take::next counting yielded values only: the decrement is undone when the
\* wrapped iterator returns Ok(None) or Err(e)
TakeNextCountValues(i, ls, s) ==
    IF ls[i].n # 0
    THEN LET r == ChainNext(i - 1, [ls EXCEPT ![i].n = @ - 1], s) IN
         IF r.res.tag = "Value" THEN r
         ELSE [r EXCEPT !.layers[i].n = @ + 1]
    ELSE [res |-> End, layers |-> ls, src |-> s]

\* Take::next stepping the wrapped iterator before it looks at the count
TakeNextDelegateFirst(i, ls, s) ==
    LET r == ChainNext(i - 1, ls, s) IN
    IF ls[i].n # 0
    THEN [r EXCEPT !.layers[i].n = @ - 1]
    ELSE [res |-> End, layers |-> r.layers, src |-> r.src]

\* Take::next closing one step early (`self.n > 1` for `self.n != 0`)
TakeNextOffByOne(i, ls, s) ==
    IF ls[i].n > 1
    THEN ChainNext(i - 1, [ls EXCEPT ![i].n = @ - 1], s)
    ELSE [res |-> End, layers |-> ls, src |-> s]

\* Take::next fused: an Ok(None) or Err(e) of the wrapped iterator closes the
\* wrapper for good
TakeNextFused(i, ls, s) ==
    IF ls[i].n # 0
    THEN LET r == ChainNext(i - 1, [ls EXCEPT ![i].n = @ - 1], s) IN
         IF r.res.tag = "Value" THEN r
         ELSE [r EXCEPT !.layers[i].n = 0]
    ELSE [res |-> End, layers |-> ls, src |-> s]

\* Take::next decrementing before it looks at the count: at zero the
\* subtraction `self.n -= 1` underflows
TakeNextUnderflow(i, ls, s) ==
    ChainNext(i - 1, [ls EXCEPT ![i].n = @ - 1], s)

\* Take::next decrementing after the call, behind a `?`: an Err(e) of the
\* wrapped iterator returns before the count is lowered
TakeNextErrorSkipsDecrement(i, ls, s) ==
    IF ls[i].n # 0
    THEN LET r == ChainNext(i - 1, ls, s) IN
         IF r.res.tag = "Error" THEN r
         ELSE [r EXCEPT !.layers[i].n = @ - 1]
    ELSE [res |-> End, layers |-> ls, src |-> s]

\* Take::next
TakeNext(i, ls, s) ==
    IF ls[i].n # 0
    THEN ChainNext(i - 1, [ls EXCEPT ![i].n = @ - 1], s)
    ELSE [res |-> End, layers |-> ls, src |-> s]

\* Map::next calling the closure on every outcome, Ok(None) and Err(e) too
MapNextOnEveryOutcome(i, ls, s) ==
    LET r == ChainNext(i - 1, ls, s) IN
    IF r.res.tag = "Value"
    THEN [res |-> Value(ApplyMap(ls[i].f, ls[i].seen, r.res.val)),
          layers |-> [r.layers EXCEPT ![i].seen = Append(@, r.res.val)],
          src |-> r.src]
    ELSE [r EXCEPT !.layers[i].seen = Append(@, r.res.val)]

\* Map::next dropping the error (`.ok().flatten()` for `?`)
MapNextSwallowError(i, ls, s) ==
    LET r == ChainNext(i - 1, ls, s) IN
    IF r.res.tag = "Value"
    THEN [res |-> Value(ApplyMap(ls[i].f, ls[i].seen, r.res.val)),
          layers |-> [r.layers EXCEPT ![i].seen = Append(@, r.res.val)],
          src |-> r.src]
    ELSE [r EXCEPT !.res = End]

\* Map::next: Ok(self.iter.next()?.map(&mut self.f))
MapNext(i, ls, s) ==
    LET r == ChainNext(i - 1, ls, s) IN
    IF r.res.tag = "Value"
    THEN [res |-> Value(ApplyMap(ls[i].f, ls[i].seen, r.res.val)),
          layers |-> [r.layers EXCEPT ![i].seen = Append(@, r.res.val)],
          src |-> r.src]
    ELSE r

ChainNext(i, ls, s) ==
    IF i = 0
    THEN LET r == SourceNext(s) IN [res |-> r.res, layers |-> ls, src |-> r.src]
    ELSE IF ls[i].kind = "Take" THEN TakeNext(i, ls, s) ELSE MapNext(i, ls, s)

\* ------------------------------------------------------------- the actions
Init ==
    /\ src \in Sources
    /\ src0 = src
    /\ layers = <<>>
    /\ chain0 = <<>>
    /\ pc = "build"
    /\ outs = <<>>
    /\ accum = 0
    /\ init0 = 0
    /\ ff = "none"
    /\ fargs = <<>>
    /\ result = NoResult

\* Iterrator::take pulling the first element while it constructs
takeEager(n) ==
    /\ pc = "build"
    /\ Len(layers) < MaxDepth
    /\ layers' = Append(layers, TakeLayer(n))
    /\ chain0' = Append(chain0, TakeLayer(n))
    /\ src' = ChainNext(Len(layers), layers, src).src
    /\ UNCHANGED <<pc, outs, accum, ff, fargs, result, src0, init0>>

\* Iterrator::take: Take{iter: self, n}
take(n) ==
    /\ pc = "build"
    /\ Len(layers) < MaxDepth
    /\ layers' = Append(layers, TakeLayer(n))
    /\ chain0' = Append(chain0, TakeLayer(n))
    /\ UNCHANGED <<src, pc, outs, accum, ff, fargs, result, src0, init0>>

\* Iterrator::map: Map{iter: self, f}
map(f) ==
    /\ pc = "build"
    /\ Len(layers) < MaxDepth
    /\ layers' = Append(layers, MapLayer(f))
    /\ chain0' = Append(chain0, MapLayer(f))
    /\ UNCHANGED <<src, pc, outs, accum, ff, fargs, result, src0, init0>>

\* the caller calls next() on the iterator it holds
next ==
    /\ pc \in {"build", "step"}
    /\ Len(outs) < MaxSteps
    /\ LET r == ChainNext(Len(layers), layers, src) IN
        /\ outs' = Append(outs, r.res)
        /\ layers' = r.layers
        /\ src' = r.src
    /\ pc' = "step"
    /\ UNCHANGED <<accum, ff, fargs, result, src0, chain0, init0>>

\* Iterrator::fold is entered: `let mut accum = init;`
fold(init, f) ==
    /\ pc = "build"
    /\ pc' = "fold"
    /\ accum' = init
    /\ init0' = init
    /\ ff' = f
    /\ UNCHANGED <<src, layers, outs, fargs, result, src0, chain0>>

\* the loop body calling f(x, accum) for f(accum, x)
FoldIterSwapped(acc, f, args, o) ==
    CASE o.tag = "Value" ->
            [pc |-> "fold", accum |-> ApplyFold(f, o.val, acc),
             fargs |-> Append(args, <<o.val, acc>>), result |-> NoResult]
      [] o.tag = "End" ->
            [pc |-> "done", accum |-> acc, fargs |-> args, result |-> Ok(acc)]
      [] o.tag = "Error" ->
            [pc |-> "done", accum |-> acc, fargs |-> args, result |-> Err(o.val)]

\* the loop leaving on Err(e) as it does on Ok(None)
\* (`while let Ok(Some(x)) = self.next()`)
FoldIterErrorEnds(acc, f, args, o) ==
    CASE o.tag = "Value" ->
            [pc |-> "fold", accum |-> ApplyFold(f, acc, o.val),
             fargs |-> Append(args, <<acc, o.val>>), result |-> NoResult]
      [] OTHER ->
            [pc |-> "done", accum |-> acc, fargs |-> args, result |-> Ok(acc)]

\* one iteration of `while let Some(x) = self.next()? { accum = f(accum, x) }`
\* and, when the loop is left, the return.
\* Given the outcome of self.next(): [pc, accum, fargs, result] afterwards.
FoldIter(acc, f, args, o) ==
    CASE o.tag = "Value" ->
            [pc |-> "fold", accum |-> ApplyFold(f, acc, o.val),
             fargs |-> Append(args, <<acc, o.val>>), result |-> NoResult]
      [] o.tag = "End" ->
            [pc |-> "done", accum |-> acc, fargs |-> args, result |-> Ok(acc)]
      [] o.tag = "Error" ->
            [pc |-> "done", accum |-> acc, fargs |-> args, result |-> Err(o.val)]

\* a source that never ends is cut off after MaxN + 2 iterations
FoldLoop ==
    /\ pc = "fold"
    /\ Len(outs) < MaxN + 2
    /\ LET r == ChainNext(Len(layers), layers, src)
           n == FoldIter(accum, ff, fargs, r.res) IN
        /\ outs' = Append(outs, r.res)
        /\ layers' = r.layers
        /\ src' = r.src
        /\ pc' = n.pc
        /\ accum' = n.accum
        /\ fargs' = n.fargs
        /\ result' = n.result
    /\ UNCHANGED <<ff, src0, chain0, init0>>

Next ==
    \/ \E n \in TakeCounts : take(n)
    \/ \E f \in MapFns : map(f)
    \/ next
    \/ \E i \in FoldInits, f \in FoldFns : fold(i, f)
    \/ FoldLoop

Spec == Init /\ [][Next]_vars

\* ------------------------------------------------------ shared vocabulary
Min(a, b) == IF a < b THEN a ELSE b
Last(s) == s[Len(s)]
Front(s) == SubSeq(s, 1, Len(s) - 1)

\* the items carried by a sequence of Value outcomes
ValuesOf(os) == [j \in 1..Len(os) |-> os[j].val]

\* f(...f(f(init, x1), x2)..., xk)
RECURSIVE FoldLeft(_, _, _)
FoldLeft(f, init, xs) ==
    IF xs = <<>> THEN init
    ELSE ApplyFold(f, FoldLeft(f, init, Front(xs)), Last(xs))


\* the step just taken was a next() call on the outermost iterator
NextCalled == Len(outs') = Len(outs) + 1

\* the number of Ok(Some(_)) outcomes a script starts with
ValuePrefixLen(s) ==
    Cardinality({k \in 1..Len(s) : \A j \in 1..k : s[j].tag = "Value"})

\* the outcome of the first next() call that does not return a Value, for a
\* scripted source
FirstNonValue(s) ==
    IF ValuePrefixLen(s) < Len(s) THEN s[ValuePrefixLen(s) + 1] ELSE End

\* the script is k values and then nothing but Ok(None)
EndsAfterValues(s) == \A j \in (ValuePrefixLen(s) + 1)..Len(s) : s[j] = End

\* the iterator the caller holds is a Take
TopIsTake == Len(layers) > 0 /\ layers[Len(layers)].kind = "Take"
TopIsMap == Len(layers) > 0 /\ layers[Len(layers)].kind = "Map"

\* ------------------------------------------------------------------- C1
\* C1 (bound exactness): for a source that yields k values and then End,
\* the outcomes of stepping source.take(n) are the first min(n, k) values of
\* the source, in source order, and after them only End.
C1_BoundExactness ==
    (/\ src0.kind = "Script"
     /\ EndsAfterValues(src0.script)
     /\ Len(chain0) = 1
     /\ chain0[1].kind = "Take")
    => LET m == Min(chain0[1].n, ValuePrefixLen(src0.script)) IN
       \A j \in 1..Len(outs) :
           outs[j] = IF j <= m THEN src0.script[j] ELSE End

\* take(3) over the source 1, 2, 3, 4, 5 was stepped four times: three
\* values came out and then End, with two values of the source left
C1_Witness ==
    /\ pc = "step"
    /\ src0 = ScriptSource(CountScript(5))
    /\ chain0 = <<TakeLayer(3)>>
    /\ outs = <<Value(1), Value(2), Value(3), End>>

\* ------------------------------------------------------------------- C2
\* C2 (Closed is absorbing and silent): a next() call that reaches a Take
\* whose count is 0, take(0) included, returns End, leaves the count at 0
\* and leaves the wrapped iterator (its adaptors and the source) as it was;
\* the adaptors around the Take hand that End to the caller.
C2_ClosedSilent ==
    [][\A i \in 1..Len(layers) :
          (layers[i].kind = "Take" /\ layers[i].n = 0 /\ NextCalled)
          => /\ Last(outs') = End
             /\ layers'[i].n = 0
             /\ \A j \in 1..i : layers'[j] = layers[j]
             /\ src' = src]_vars

\* take(0) over a source that has a value ready was stepped twice and the
\* source has not been called
C2_Witness ==
    /\ pc = "step"
    /\ chain0 = <<TakeLayer(0)>>
    /\ src0.kind = "Numbers"
    /\ outs = <<End, End>>
    /\ src.calls = 0

\* ------------------------------------------------------------------- C3
\* C3 as stated: the count of a Take goes down by exactly 1 on a step that
\* returns a Value and on no other step.
C3_DecrementPerValue ==
    [][(TopIsTake /\ NextCalled)
        => layers'[Len(layers)].n =
              IF Last(outs').tag = "Value"
              THEN layers[Len(layers)].n - 1
              ELSE layers[Len(layers)].n]_vars

\* C3 (amended): the count of a Take never goes up; a next() call made
\* while it is above zero lowers it by exactly 1 whatever outcome the
\* wrapped iterator returns, and nothing else changes it; once it is zero
\* the call returns End and leaves the wrapped iterator untouched.
C3_DecrementPerDelegation ==
    [][/\ \A i \in 1..Len(layers) :
             layers[i].kind = "Take"
             => /\ layers'[i].n <= layers[i].n
                /\ layers'[i].n >= layers[i].n - 1
                /\ layers'[i].n >= 0
       /\ (TopIsTake /\ NextCalled)
            => LET r == layers[Len(layers)].n IN
               IF r > 0
               THEN layers'[Len(layers)].n = r - 1
               ELSE /\ layers'[Len(layers)].n = 0
                    /\ Last(outs') = End
                    /\ src' = src
       /\ (TopIsTake /\ ~NextCalled /\ Len(layers') = Len(layers))
            => layers'[Len(layers)].n = layers[Len(layers)].n]_vars

\* a Take stepped while its source fails or has ended: the count went from
\* 2 to 0 although no value was yielded
C3_Witness ==
    /\ pc = "step"
    /\ chain0 = <<TakeLayer(2)>>
    /\ layers[1].n = 0
    /\ \A j \in 1..Len(outs) : outs[j].tag # "Value"
    /\ Len(outs) = 3
    /\ src.calls = 2


\* ------------------------------------------------------------------- C4
\* C4 (Map applies f once per Value): on a next() call of a Map, if the
\* wrapped iterator returns Value(x) the closure is called once, with x, and
\* the call returns Value(f(x)); if it returns End or Error the call returns
\* that outcome and the closure is not called (its state is unchanged).
C4_MapOncePerValue ==
    [][(TopIsMap /\ NextCalled)
        => LET top == Len(layers)
               inner == ChainNext(top - 1, layers, src).res IN
           IF inner.tag = "Value"
           THEN /\ Last(outs') =
                      Value(ApplyMap(layers[top].f, layers[top].seen, inner.val))
                /\ layers'[top].seen = Append(layers[top].seen, inner.val)
           ELSE /\ Last(outs') = inner
                /\ layers'[top].seen = layers[top].seen]_vars

\* a stateful closure mapped over the source 1, 2: it was called with 1 and
\* then with 2, and not on the End that followed
C4_Witness ==
    /\ pc = "step"
    /\ src0 = ScriptSource(<<Value(1), Value(2)>>)
    /\ chain0 = <<MapLayer("tally")>>
    /\ outs = <<Value(1), Value(3), End>>
    /\ layers[1].seen = <<1, 2>>

\* ------------------------------------------------------------------- C5
\* C5 (error transparency): whenever a next() call on the outermost adaptor
\* of a take/map chain reaches the source and the source returns Error(e),
\* the call returns Error(e), the same error value.
C5_ErrorTransparent ==
    [][(NextCalled /\ src'.calls = src.calls + 1
            /\ SourceNext(src).res.tag = "Error")
        => Last(outs') = SourceNext(src).res]_vars

\* the source's Error(1) came out of source.take(2).map(double) unchanged
C5_Witness ==
    /\ pc = "step"
    /\ src0 = ScriptSource(<<Value(1), Error(1)>>)
    /\ chain0 = <<TakeLayer(2), MapLayer("double")>>
    /\ outs = <<Value(2), Error(1)>>

\* ------------------------------------------------------------------- C6
\* C6 (fold result): fold calls next() until the first outcome that is not
\* a Value and never after it; when that outcome is End, after values
\* x1..xk, it returns Ok(f(...f(f(init, x1), x2)..., xk)), having called f
\* exactly k times, in iteration order, and next() exactly k + 1 times.
C6_FoldResult ==
    /\ (pc \in {"fold", "done"})
        => \A j \in 1..(Len(outs) - 1) : outs[j].tag = "Value"
    /\ (pc = "fold" /\ outs # <<>>) => Last(outs).tag = "Value"
    /\ (pc = "done" /\ Last(outs) = End)
        => LET xs == ValuesOf(Front(outs)) IN
           /\ result = Ok(FoldLeft(ff, init0, xs))
           /\ Len(fargs) = Len(xs)
           /\ \A j \in 1..Len(xs) :
                 fargs[j] = <<FoldLeft(ff, init0, SubSeq(xs, 1, j - 1)), xs[j]>>
    /\ (pc = "done" /\ chain0 = <<>> /\ src0.kind = "Script"
            /\ FirstNonValue(src0.script) = End)
        => LET k == ValuePrefixLen(src0.script) IN
           /\ src.calls = k + 1
           /\ Len(fargs) = k
           /\ result =
                 Ok(FoldLeft(ff, init0, ValuesOf(SubSeq(src0.script, 1, k))))

\* fold(1, |a, b| 2 * a + b) over the source 1, 2 returned Ok(8)
C6_Witness ==
    /\ pc = "done"
    /\ src0 = ScriptSource(<<Value(1), Value(2)>>)
    /\ chain0 = <<>>
    /\ ff = "shl"
    /\ init0 = 1
    /\ fargs = <<<<1, 1>>, <<3, 2>>>>
    /\ result = Ok(8)
    /\ src.calls = 3

\* ------------------------------------------------------------------- C7
\* C7 (fold short-circuit): when the j-th next() is the first to return
\* Error(e), fold returns Err(e), not the accumulator, has made no next()
\* call after the j-th, and has called f only for the j - 1 values before
\* it: not at all when the source always fails.
C7_FoldShortCircuit ==
    /\ (pc = "done" /\ Last(outs).tag = "Error")
        => /\ result = Err(Last(outs).val)
           /\ result # Ok(accum)
           /\ \A j \in 1..(Len(outs) - 1) : outs[j].tag = "Value"
           /\ Len(fargs) = Len(outs) - 1
           /\ \A j \in 1..Len(fargs) : fargs[j][2] = outs[j].val
    /\ (pc = "done" /\ chain0 = <<>> /\ src0.kind = "Script"
            /\ FirstNonValue(src0.script).tag = "Error")
        => /\ result = Err(FirstNonValue(src0.script).val)
           /\ src.calls = ValuePrefixLen(src0.script) + 1
           /\ Len(fargs) = ValuePrefixLen(src0.script)
    /\ (pc = "done" /\ chain0 = <<>> /\ src0.kind = "Fail")
        => /\ result = Err(UnitError)
           /\ src.calls = 1
           /\ fargs = <<>>

\* fold(1, +) over a source that yields 2 and then fails with error 1:
\* Err(1) although the accumulator had reached 3
C7_Witness ==
    /\ pc = "done"
    /\ src0 = ScriptSource(<<Value(2), Error(1)>>)
    /\ chain0 = <<>>
    /\ ff = "add"
    /\ init0 = 1
    /\ accum = 3
    /\ fargs = <<<<1, 2>>>>
    /\ result = Err(1)
    /\ src.calls = 2

\* ------------------------------------------------------------------- C8
\* C8 (laziness): until the iterator the caller holds has been stepped, the
\* source has received no next() call and is in the state it was created
\* in, no closure has been called and every adaptor is as constructed.
C8_Lazy ==
    outs = <<>>
    => /\ src = src0
       /\ src.calls = 0
       /\ layers = chain0
       /\ \A i \in 1..Len(layers) : layers[i].seen = <<>>

\* source.take(2).map(tally) has been constructed over the counter, and the
\* counter has not moved
C8_Witness ==
    /\ pc = "build"
    /\ src0 = NumbersIterator(0)
    /\ layers = <<TakeLayer(2), MapLayer("tally")>>
    /\ src.cur = 0

\* ------------------------------------------------------------------- C9
\* the first n outcomes of the source are values
YieldsAtLeast(s, n) ==
    \/ s.kind = "Numbers"
    \/ s.kind = "Script" /\ ValuePrefixLen(s.script) >= n

\* C9 (composition): over the source 1, 2, 3, 4, 5,
\* take(3).map(|x| x * 2).fold(0, +) returns Ok(12) and the source is called
\* exactly 3 times; in general take(n).map(f).fold calls a source whose
\* first n outcomes are values exactly n times.
C9_Composition ==
    /\ (pc = "done" /\ src0 = ScriptSource(CountScript(5))
            /\ chain0 = <<TakeLayer(3), MapLayer("double")>>
            /\ ff = "add" /\ init0 = 0)
        => result = Ok(12) /\ src.calls = 3
    /\ (pc = "done" /\ Len(chain0) = 2
            /\ chain0[1].kind = "Take" /\ chain0[2].kind = "Map"
            /\ YieldsAtLeast(src0, chain0[1].n))
        => src.calls = chain0[1].n

C9_Witness ==
    /\ pc = "done"
    /\ src0 = ScriptSource(CountScript(5))
    /\ chain0 = <<TakeLayer(3), MapLayer("double")>>
    /\ ff = "add"
    /\ init0 = 0
    /\ outs = <<Value(2), Value(4), Value(6), End>>
    /\ result = Ok(12)
    /\ src.cur = 3

\* ------------------------------------------------------------------ C10
\* C10 (sum over a bounded counter): over NumbersIterator(0), which yields
\* 1, 2, 3, ... and never End, take(n).fold(0, +) returns Ok(n * (n + 1) / 2).
C10_SumOfCounter ==
    (pc = "done" /\ src0 = NumbersIterator(0)
        /\ Len(chain0) = 1 /\ chain0[1].kind = "Take"
        /\ ff = "add" /\ init0 = 0)
    => result = Ok((chain0[1].n * (chain0[1].n + 1)) \div 2)

\* tests::sum: NumbersIterator(0).take(5).fold(0, |a, b| a + b) == Ok(15)
C10_Witness ==
    /\ pc = "done"
    /\ src0 = NumbersIterator(0)
    /\ chain0 = <<TakeLayer(5)>>
    /\ ff = "add"
    /\ init0 = 0
    /\ outs = <<Value(1), Value(2), Value(3), Value(4), Value(5), End>>
    /\ result = Ok(15)

\* ------------------------------------------------------------------ C11
\* C11 (an active Take is an unfused pass-through): a next() call on a Take
\* whose count r is above zero sets the count to r - 1, steps the wrapped
\* iterator exactly once and returns its outcome, Value, End or Error,
\* unchanged.  This holds in every state, so after an End or Error passed
\* through the next call with the count above zero delegates again.
C11_ActivePassThrough ==
    [][(TopIsTake /\ layers[Len(layers)].n > 0 /\ NextCalled)
        => LET top == Len(layers)
               inner == ChainNext(top - 1, layers, src) IN
           /\ layers'[top].n = layers[top].n - 1
           /\ Last(outs') = inner.res
           /\ src' = inner.src
           /\ \A j \in 1..(top - 1) : layers'[j] = inner.layers[j]
           /\ (top = 1)
                => /\ src'.calls = src.calls + 1
                   /\ Last(outs') = SourceNext(src).res]_vars

\* take(3) over a source that reports End and then yields 1: the End was
\* passed through, and the next call reached the source again
C11_Witness ==
    /\ pc = "step"
    /\ src0 = ScriptSource(<<End, Value(1)>>)
    /\ chain0 = <<TakeLayer(3)>>
    /\ outs = <<End, Value(1)>>
    /\ layers[1].n = 1
    /\ src.calls = 2

\* ------------------------------------------------------------------ C12
\* the outermost iterator has already returned End or Error
AfterEndOrError == \E j \in 1..Len(outs) : outs[j].tag \in {"End", "Error"}

\* C12 (re-querying is well defined): a next() call on a Take or Map that
\* has already returned End or Error returns exactly one of Value, End and
\* Error and leaves every count a natural number (`self.n -= 1` never
\* underflows).  A Take returns End if its count is 0 and the wrapped
\* outcome otherwise; a Map returns the wrapped outcome, with f applied to
\* a Value.
C12_RequeryDefined ==
    [][(NextCalled /\ AfterEndOrError /\ Len(layers) > 0)
        => LET top == Len(layers)
               inner == ChainNext(top - 1, layers, src).res IN
           /\ Last(outs').tag \in {"Value", "End", "Error"}
           /\ \A i \in 1..top :
                 layers'[i].kind = "Take" => layers'[i].n \in Nat
           /\ TopIsTake
                => Last(outs') = IF layers[top].n = 0 THEN End ELSE inner
           /\ TopIsMap
                => Last(outs') =
                     IF inner.tag = "Value"
                     THEN Value(ApplyMap(layers[top].f, layers[top].seen,
                                         inner.val))
                     ELSE inner]_vars

\* source.take(2).map(double) over a source that fails and then yields 2,
\* stepped on after the Error and after the End that followed
C12_Witness ==
    /\ pc = "step"
    /\ src0 = ScriptSource(<<Error(1), Value(2)>>)
    /\ chain0 = <<TakeLayer(2), MapLayer("double")>>
    /\ outs = <<Error(1), Value(4), End, End>>
    /\ layers[1].n = 0
    /\ src.calls = 2

\* ------------------------------------------------------------------ C13
\* every adaptor under layer i is a Map, so each call layer i delegates
\* reaches the source exactly once
OverMapsOnly(i) == \A j \in 1..(i - 1) : layers[j].kind = "Map"

\* C13 (call budget of Take): a wrapper created by take(n) always has
\* 0 <= count <= n, and count + (calls it has delegated) = n; the source
\* under it has been stepped at most n times, whatever it returned.
C13_CallBudget ==
    \A i \in 1..Len(layers) :
        layers[i].kind = "Take"
        => /\ layers[i].n \in Nat
           /\ layers[i].n <= chain0[i].n
           /\ src.calls <= chain0[i].n
           /\ OverMapsOnly(i) => layers[i].n + src.calls = chain0[i].n

\* take(3) over the source that always fails, stepped four times: three
\* calls were delegated, the count is spent, the fourth call was not
C13_Witness ==
    /\ pc = "step"
    /\ src0 = FailIterator
    /\ chain0 = <<TakeLayer(3)>>
    /\ outs = <<Error(UnitError), Error(UnitError), Error(UnitError), End>>
    /\ layers[1].n = 0
    /\ src.calls = 3

\* ------------------------------------------------------------------ C14
\* fold is a sequential loop: once entered, its next iteration is taken
FairSpec == Spec /\ WF_vars(FoldLoop)

\* C14 (fold over Take terminates): source.take(n).fold(init, f) returns,
\* for every source, also one that never reports End, after at most n + 1
\* next() calls on the Take, at most n next() calls on the source and at
\* most n calls of f.  While the loop runs it has made at most n calls on
\* the Take and its next iteration can be taken (the guard of FoldLoop
\* holds); each iteration makes one more call, so the loop is left by call
\* n + 1.
C14_FoldOverTakeTerminates ==
    (pc \in {"fold", "done"} /\ TopIsTake)
    => LET n == chain0[Len(chain0)].n IN
       /\ Len(outs) <= n + 1
       /\ src.calls <= n
       /\ Len(fargs) <= n
       /\ pc = "fold" => (Len(outs) <= n /\ Len(outs) < MaxN + 2)
       /\ Len(outs) = n + 1 => pc = "done"

\* the same as a liveness property of FairSpec: a fold over a Take, once
\* entered, returns
C14_EventuallyReturns == (pc = "fold" /\ TopIsTake) ~> (pc = "done")

\* the counter that never ends, folded through take(4): fold returned after
\* five calls on the Take and four on the counter
C14_Witness ==
    /\ pc = "done"
    /\ src0 = NumbersIterator(1)
    /\ chain0 = <<TakeLayer(4)>>
    /\ Len(outs) = 5
    /\ src.calls = 4
    /\ Len(fargs) = 4
    /\ result.tag = "Ok"

\* ------------------------------------------------------------------ C15
\* the iterator made of source s and adaptors ls, stepped m times:
\* [outs, layers, src] afterwards
RECURSIVE RunChain(_, _, _)
RunChain(ls, s, m) ==
    IF m = 0 THEN [outs |-> <<>>, layers |-> ls, src |-> s]
    ELSE LET p == RunChain(ls, s, m - 1)
             r == ChainNext(Len(ls), p.layers, p.src) IN
         [outs |-> Append(p.outs, r.res), layers |-> r.layers, src |-> r.src]

\* C15 (take and map commute): source.take(n).map(f), stepped any number
\* of times, has returned the outcomes source.map(f).take(n) returns when
\* stepped as often, has made the same calls on the source, has called f
\* with the same values in the same order and has the same count left.
C15_TakeMapCommute ==
    (Len(chain0) = 2 /\ chain0[1].kind = "Take" /\ chain0[2].kind = "Map")
    => LET alt == RunChain(<<chain0[2], chain0[1]>>, src0, Len(outs)) IN
       /\ outs = alt.outs
       /\ src = alt.src
       /\ layers[2].seen = alt.layers[1].seen
       /\ layers[1].n = alt.layers[2].n

\* source.take(1).map(tally) over the source 1, 2, stepped past its bound
C15_Witness ==
    /\ pc = "step"
    /\ src0 = ScriptSource(<<Value(1), Value(2)>>)
    /\ chain0 = <<TakeLayer(1), MapLayer("tally")>>
    /\ outs = <<Value(1), End, End>>
    /\ layers[2].seen = <<1>>
    /\ src.calls = 1

\* ------------------------------------------------------------------ C16
\* C16 (nested bounds collapse): source.take(m).take(n), stepped any number
\* of times, has returned the outcomes source.take(min(m, n)) returns when
\* stepped as often and has made the same calls on the source, at most
\* min(m, n) of them.
C16_NestedTakesCollapse ==
    (Len(chain0) = 2 /\ chain0[1].kind = "Take" /\ chain0[2].kind = "Take")
    => LET k == Min(chain0[1].n, chain0[2].n)
           alt == RunChain(<<TakeLayer(k)>>, src0, Len(outs)) IN
       /\ outs = alt.outs
       /\ src = alt.src
       /\ src.calls <= k

\* counter.take(1).take(3), stepped three times: one value, as take(1)
C16_Witness ==
    /\ pc = "step"
    /\ src0 = NumbersIterator(0)
    /\ chain0 = <<TakeLayer(1), TakeLayer(3)>>
    /\ outs = <<Value(1), End, End>>
    /\ layers = <<TakeLayer(0), TakeLayer(0)>>
    /\ src.calls = 1

====
